---- MODULE Spec2Model ----
(***************************************************************************)
(* sched/signal/sig_procmask.c: nxsig_procmask() and sigprocmask().        *)
(*                                                                         *)
(* Each task owns a signal mask (sigprocmask), a set of pending signals    *)
(* and a scheduler-lock count.  A call runs as a sequence of steps of the  *)
(* calling task; between two steps an interrupt may raise a signal on any  *)
(* task (when interrupts are enabled) and the scheduler may switch to      *)
(* another task (when the running task's lock count is zero).              *)
(***************************************************************************)
EXTENDS Integers, FiniteSets, Sequences, TLC

(* ---- bounds of the model ---- *)
NumSignals == 2
NumTasks == 2
MaxCalls == 1
SeqCalls == 2
MaxNest == 1

Signals == 1..NumSignals
Tasks == 1..NumTasks
SigSets == SUBSET Signals

(* ---- values of <signal.h> and <errno.h> used by the code ---- *)
SIG_BLOCK == 1
SIG_UNBLOCK == 2
SIG_SETMASK == 3
OK == 0
ERROR == -1
EINVAL == 22
EIO == 5

ValidHows == {SIG_BLOCK, SIG_UNBLOCK, SIG_SETMASK}
InvalidHows == {SIG_SETMASK + 1, SIG_SETMASK + 96}
HowValues == ValidHows \cup InvalidHows

VARIABLES
  rtcb,           \* this_task(): the running task
  irqen,          \* interrupts enabled on the CPU
  sigprocmask,    \* [task -> set of blocked signals]
  sigpendingset,  \* [task -> set of pending signals]
  lockcount,      \* [task -> scheduler-lock count]
  errno,          \* [task -> errno value]
  pc,             \* [task -> position in sigprocmask/nxsig_procmask]
  how,            \* [task -> argument how]
  setp,           \* [task -> set != NULL]
  set,            \* [task -> *set]
  osetp,          \* [task -> oset != NULL]
  oset,           \* [task -> <<>> while *oset is unwritten, else <<*oset>>]
  oldsigprocmask, \* [task -> local oldsigprocmask]
  flags,          \* [task -> local flags]
  acc,            \* [task -> value loaded by the read of a |= or &= ]
  ret,            \* [task -> local ret of nxsig_procmask]
  sret,           \* [task -> local ret of sigprocmask]
  entry,          \* [task -> state of the task when the call was entered]
  ndispatch,      \* [task -> calls of nxsig_unmask_pendingsignal in this call]
  delivered,      \* [task -> signals the dispatcher delivered in this call]
  ncs,            \* [task -> enter_critical_section calls in this call]
  last,           \* the last finished call, where the run keeps it
  ncalls          \* calls made so far

tcb == <<sigprocmask, sigpendingset, lockcount, errno>>
args == <<how, setp, set, osetp>>
locals == <<oset, oldsigprocmask, flags, acc, ret, sret>>
ghost == <<entry, ndispatch, delivered, ncs, last, ncalls>>
vars == <<rtcb, irqen, tcb, pc, args, locals, ghost>>

NoEntry == [mask |-> {}, pending |-> {}, lockcount |-> 0, errno |-> EIO, irqen |-> TRUE]
NoLast == [task |-> 0, how |-> 0, setp |-> FALSE, set |-> {}, osetp |-> FALSE, old |-> {},
           oset |-> <<>>]

Min(S) == CHOOSE x \in S : \A y \in S : x <= y

(* ---- the pure parts of nxsig_procmask ---- *)

\* mutant: *oset is cleared instead of being given the old mask
CaptureOset_empty(op, old, cur) == IF op THEN <<{}>> ELSE cur

\* mutant: the write through oset is missing
CaptureOset_nowrite(op, old, cur) == cur

\* *oset after "if (oset != NULL) *oset = oldsigprocmask;"
CaptureOset(op, old, cur) == IF op THEN <<old>> ELSE cur

\* mutant: enter_critical_section() is missing
AfterCapture_nocs(sp) == IF sp THEN "switch" ELSE "unlock"

\* mutant: the test of set is missing
AfterCapture_always(sp) == "enter"

\* "if (set != NULL)": the path taken after the capture
AfterCapture(sp) == IF sp THEN "enter" ELSE "unlock"

\* mutant: SIG_UNBLOCK without the complement
NewMask_nocompl(h, m, s) ==
  CASE h = SIG_BLOCK -> m \cup s
    [] h = SIG_UNBLOCK -> m \cap s
    [] h = SIG_SETMASK -> s
    [] OTHER -> m

\* mutant: SIG_BLOCK and SIG_UNBLOCK exchanged
NewMask_swapped(h, m, s) ==
  CASE h = SIG_BLOCK -> m \cap (Signals \ s)
    [] h = SIG_UNBLOCK -> m \cup s
    [] h = SIG_SETMASK -> s
    [] OTHER -> m

\* mutant: SIG_UNBLOCK stores the complement of the set, whatever the mask
NewMask_unblockset(h, m, s) ==
  CASE h = SIG_BLOCK -> m \cup s
    [] h = SIG_UNBLOCK -> Signals \ s
    [] h = SIG_SETMASK -> s
    [] OTHER -> m

\* mutant: SIG_SETMASK stores the complement of the set
NewMask_setcompl(h, m, s) ==
  CASE h = SIG_BLOCK -> m \cup s
    [] h = SIG_UNBLOCK -> m \cap (Signals \ s)
    [] h = SIG_SETMASK -> Signals \ s
    [] OTHER -> m

\* the value the switch stores to rtcb->sigprocmask: m is the value read
\* from the mask (|=, &=), s is *set
NewMask(h, m, s) ==
  CASE h = SIG_BLOCK -> m \cup s
    [] h = SIG_UNBLOCK -> m \cap (Signals \ s)
    [] h = SIG_SETMASK -> s
    [] OTHER -> m

\* the cases of the switch that write the mask
WritesMask(h) == h \in {SIG_BLOCK, SIG_UNBLOCK, SIG_SETMASK}

\* mutant: the default case does not set ret
SwitchRet_noerr(h, r) == r

\* ret after the switch
SwitchRet(h, r) == IF WritesMask(h) THEN r ELSE -EINVAL

\* mutant: after a failed switch the call stays at leave_critical_section
AfterLeave_wait(r) == IF r = OK THEN "dispatch" ELSE "leave"

\* mutant: the dispatcher is called only when the switch succeeded
AfterLeave_onlyok(r) == IF r = OK THEN "dispatch" ELSE "unlock"

\* mutant: the dispatcher is not called
AfterLeave_skip(r) == "unlock"

\* what follows leave_critical_section
AfterLeave(r) == "dispatch"

\* mutant: errno is set whatever ret is
SpErrno_always(r, e) == -r

\* mutant: the negated errno value is returned as it is
SpRet_raw(r) == r

\* sigprocmask: "if (ret < 0) { set_errno(-ret); ret = ERROR; }"
SpErrno(r, e) == IF r < 0 THEN -r ELSE e
SpRet(r) == IF r < 0 THEN ERROR ELSE r

(* ---- primitives the code calls ---- *)

\* sched_lock / sched_unlock on the count of the calling task
sched_lock(c) == c + 1
sched_unlock(c) == c - 1

\* the set nxsig_unmask_pendingsignal delivers from
Unmasked(t) == sigpendingset[t] \ sigprocmask[t]

Init ==
  /\ rtcb \in Tasks
  /\ irqen = TRUE
  /\ sigprocmask \in [Tasks -> SigSets]
  /\ sigpendingset \in [Tasks -> SigSets]
  /\ \A t \in Tasks : sigpendingset[t] \subseteq sigprocmask[t]
  /\ lockcount = [t \in Tasks |-> 0]
  /\ errno = [t \in Tasks |-> EIO]    \* the error of some earlier call
  /\ pc = [t \in Tasks |-> "idle"]
  /\ how = [t \in Tasks |-> 0]
  /\ setp = [t \in Tasks |-> FALSE]
  /\ set = [t \in Tasks |-> {}]
  /\ osetp = [t \in Tasks |-> FALSE]
  /\ oset = [t \in Tasks |-> <<>>]
  /\ oldsigprocmask = [t \in Tasks |-> {}]
  /\ flags = [t \in Tasks |-> TRUE]
  /\ acc = [t \in Tasks |-> {}]
  /\ ret = [t \in Tasks |-> OK]
  /\ sret = [t \in Tasks |-> OK]
  /\ entry = [t \in Tasks |-> NoEntry]
  /\ ndispatch = [t \in Tasks |-> 0]
  /\ delivered = [t \in Tasks |-> {}]
  /\ ncs = [t \in Tasks |-> 0]
  /\ last = NoLast
  /\ ncalls = 0

Running(t) == rtcb = t

(* ---- the caller's environment ---- *)

\* the caller takes the scheduler lock before calling (a broader locked region)
CallerLock(t) ==
  /\ Running(t) /\ pc[t] = "idle" /\ lockcount[t] < MaxNest
  /\ lockcount' = [lockcount EXCEPT ![t] = sched_lock(@)]
  /\ UNCHANGED <<rtcb, irqen, sigprocmask, sigpendingset, errno, pc, args, locals, ghost>>

CallerUnlock(t) ==
  /\ Running(t) /\ pc[t] = "idle" /\ lockcount[t] > 0
  /\ lockcount' = [lockcount EXCEPT ![t] = sched_unlock(@)]
  /\ UNCHANGED <<rtcb, irqen, sigprocmask, sigpendingset, errno, pc, args, locals, ghost>>

\* the caller is itself inside a critical section, or leaves it
CallerIrq(t, b) ==
  /\ Running(t) /\ pc[t] = "idle" /\ irqen # b
  /\ irqen' = b
  /\ UNCHANGED <<rtcb, tcb, pc, args, locals, ghost>>

\* the scheduler switches to another task
Preempt(u) ==
  /\ u # rtcb /\ irqen /\ lockcount[rtcb] = 0
  /\ rtcb' = u
  /\ UNCHANGED <<irqen, tcb, pc, args, locals, ghost>>

\* an interrupt raises signal n on task t: a blocked signal becomes pending,
\* an unblocked one is delivered at once
Interrupt(t, n) ==
  /\ irqen
  /\ sigpendingset' = [sigpendingset EXCEPT ![t] =
                         IF n \in sigprocmask[t] THEN @ \cup {n} ELSE @]
  /\ UNCHANGED <<rtcb, irqen, sigprocmask, lockcount, errno, pc, args, locals, ghost>>

(* ---- sigprocmask -> nxsig_procmask ---- *)

\* mutant: sched_lock() counts in one count shared by all tasks
Call_globallock(t, h, sp, s, op, max) ==
  /\ Running(t) /\ pc[t] = "idle" /\ ncalls < max
  /\ how' = [how EXCEPT ![t] = h]
  /\ setp' = [setp EXCEPT ![t] = sp]
  /\ set' = [set EXCEPT ![t] = s]
  /\ osetp' = [osetp EXCEPT ![t] = op]
  /\ ret' = [ret EXCEPT ![t] = OK]
  /\ entry' = [entry EXCEPT ![t] = [mask |-> sigprocmask[t], pending |-> sigpendingset[t],
                                    lockcount |-> lockcount[t], errno |-> errno[t],
                                    irqen |-> irqen]]
  /\ lockcount' = [u \in Tasks |-> sched_lock(lockcount[u])]
  /\ ncalls' = ncalls + 1
  /\ pc' = [pc EXCEPT ![t] = "capture"]
  /\ UNCHANGED <<rtcb, irqen, sigprocmask, sigpendingset, errno, oset, oldsigprocmask,
                 flags, acc, sret, ndispatch, delivered, ncs, last>>

\* mutant: sched_lock() is missing
Call_nolock(t, h, sp, s, op, max) ==
  /\ Running(t) /\ pc[t] = "idle" /\ ncalls < max
  /\ how' = [how EXCEPT ![t] = h]
  /\ setp' = [setp EXCEPT ![t] = sp]
  /\ set' = [set EXCEPT ![t] = s]
  /\ osetp' = [osetp EXCEPT ![t] = op]
  /\ ret' = [ret EXCEPT ![t] = OK]
  /\ entry' = [entry EXCEPT ![t] = [mask |-> sigprocmask[t], pending |-> sigpendingset[t],
                                    lockcount |-> lockcount[t], errno |-> errno[t],
                                    irqen |-> irqen]]
  /\ ncalls' = ncalls + 1
  /\ pc' = [pc EXCEPT ![t] = "capture"]
  /\ UNCHANGED <<rtcb, irqen, sigprocmask, sigpendingset, lockcount, errno, oset,
                 oldsigprocmask, flags, acc, sret, ndispatch, delivered, ncs, last>>

\* entry of the call up to and including sched_lock()
Call(t, h, sp, s, op, max) ==
  /\ Running(t) /\ pc[t] = "idle" /\ ncalls < max
  /\ how' = [how EXCEPT ![t] = h]
  /\ setp' = [setp EXCEPT ![t] = sp]
  /\ set' = [set EXCEPT ![t] = s]
  /\ osetp' = [osetp EXCEPT ![t] = op]
  /\ ret' = [ret EXCEPT ![t] = OK]
  /\ entry' = [entry EXCEPT ![t] = [mask |-> sigprocmask[t], pending |-> sigpendingset[t],
                                    lockcount |-> lockcount[t], errno |-> errno[t],
                                    irqen |-> irqen]]
  /\ lockcount' = [lockcount EXCEPT ![t] = sched_lock(@)]
  /\ ncalls' = ncalls + 1
  /\ pc' = [pc EXCEPT ![t] = "capture"]
  /\ UNCHANGED <<rtcb, irqen, sigprocmask, sigpendingset, errno, oset, oldsigprocmask,
                 flags, acc, sret, ndispatch, delivered, ncs, last>>

Capture(t) ==
  /\ Running(t) /\ pc[t] = "capture"
  /\ oldsigprocmask' = [oldsigprocmask EXCEPT ![t] = sigprocmask[t]]
  /\ oset' = [oset EXCEPT ![t] = CaptureOset(osetp[t], sigprocmask[t], @)]
  /\ pc' = [pc EXCEPT ![t] = AfterCapture(setp[t])]
  /\ UNCHANGED <<rtcb, irqen, tcb, args, flags, acc, ret, sret, ghost>>

EnterCritical(t) ==
  /\ Running(t) /\ pc[t] = "enter"
  /\ flags' = [flags EXCEPT ![t] = irqen]
  /\ irqen' = FALSE
  /\ ncs' = [ncs EXCEPT ![t] = @ + 1]
  /\ pc' = [pc EXCEPT ![t] = "switch"]
  /\ UNCHANGED <<rtcb, tcb, args, oset, oldsigprocmask, acc, ret, sret,
                 entry, ndispatch, delivered, last, ncalls>>

\* the switch: |= and &= read the mask, the default case sets ret
Switch(t) ==
  /\ Running(t) /\ pc[t] = "switch"
  /\ acc' = [acc EXCEPT ![t] = IF how[t] \in {SIG_BLOCK, SIG_UNBLOCK}
                                 THEN sigprocmask[t] ELSE @]
  /\ ret' = [ret EXCEPT ![t] = SwitchRet(how[t], @)]
  /\ pc' = [pc EXCEPT ![t] = IF WritesMask(how[t]) THEN "store" ELSE "leave"]
  /\ UNCHANGED <<rtcb, irqen, tcb, args, oset, oldsigprocmask, flags, sret, ghost>>

\* the write of the mask
Store(t) ==
  /\ Running(t) /\ pc[t] = "store"
  /\ sigprocmask' = [sigprocmask EXCEPT ![t] = NewMask(how[t], acc[t], set[t])]
  /\ pc' = [pc EXCEPT ![t] = "leave"]
  /\ UNCHANGED <<rtcb, irqen, sigpendingset, lockcount, errno, args, locals, ghost>>

\* mutant: interrupts are enabled instead of restored from flags
LeaveCritical_enable(t) ==
  /\ Running(t) /\ pc[t] = "leave"
  /\ irqen' = TRUE
  /\ pc' = [pc EXCEPT ![t] = AfterLeave(ret[t])]
  /\ UNCHANGED <<rtcb, tcb, args, locals, ghost>>

LeaveCritical(t) ==
  /\ Running(t) /\ pc[t] = "leave"
  /\ irqen' = flags[t]
  /\ pc' = [pc EXCEPT ![t] = AfterLeave(ret[t])]
  /\ UNCHANGED <<rtcb, tcb, args, locals, ghost>>

\* mutant: sched_unlock() comes before the call of the dispatcher
Dispatch_unlocked(t) ==
  /\ Running(t) /\ pc[t] = "dispatch"
  /\ ndispatch' = [ndispatch EXCEPT ![t] = @ + 1]
  /\ lockcount' = [lockcount EXCEPT ![t] = sched_unlock(@)]
  /\ pc' = [pc EXCEPT ![t] = "deliver"]
  /\ UNCHANGED <<rtcb, irqen, sigprocmask, sigpendingset, errno, args, locals, entry,
                 delivered, ncs, last, ncalls>>

\* the call of nxsig_unmask_pendingsignal()
Dispatch(t) ==
  /\ Running(t) /\ pc[t] = "dispatch"
  /\ ndispatch' = [ndispatch EXCEPT ![t] = @ + 1]
  /\ pc' = [pc EXCEPT ![t] = "deliver"]
  /\ UNCHANGED <<rtcb, irqen, tcb, args, locals, entry, delivered, ncs, last, ncalls>>

\* nxsig_unmask_pendingsignal delivers one pending, unmasked signal
Deliver(t) ==
  /\ Running(t) /\ pc[t] = "deliver" /\ Unmasked(t) # {}
  /\ LET n == Min(Unmasked(t)) IN
       /\ sigpendingset' = [sigpendingset EXCEPT ![t] = @ \ {n}]
       /\ delivered' = [delivered EXCEPT ![t] = @ \cup {n}]
  /\ UNCHANGED <<rtcb, irqen, sigprocmask, lockcount, errno, pc, args, locals,
                 entry, ndispatch, ncs, last, ncalls>>

\* nxsig_unmask_pendingsignal returns: nothing pending is unmasked
DispatchDone(t) ==
  /\ Running(t) /\ pc[t] = "deliver" /\ Unmasked(t) = {}
  /\ pc' = [pc EXCEPT ![t] = "unlock"]
  /\ UNCHANGED <<rtcb, irqen, tcb, args, locals, ghost>>

\* mutant: the path without a set returns without sched_unlock()
Unlock_leak(t) ==
  /\ Running(t) /\ pc[t] = "unlock"
  /\ lockcount' = [lockcount EXCEPT ![t] = IF setp[t] THEN sched_unlock(@) ELSE @]
  /\ sret' = [sret EXCEPT ![t] = ret[t]]
  /\ pc' = [pc EXCEPT ![t] = "returned"]
  /\ UNCHANGED <<rtcb, irqen, sigprocmask, sigpendingset, errno, args, oset,
                 oldsigprocmask, flags, acc, ret, ghost>>

\* sched_unlock(); return ret;  and sigprocmask's "ret = nxsig_procmask(...)"
Unlock(t) ==
  /\ Running(t) /\ pc[t] = "unlock"
  /\ lockcount' = [lockcount EXCEPT ![t] = sched_unlock(@)]
  /\ sret' = [sret EXCEPT ![t] = ret[t]]
  /\ pc' = [pc EXCEPT ![t] = "returned"]
  /\ UNCHANGED <<rtcb, irqen, sigprocmask, sigpendingset, errno, args, oset,
                 oldsigprocmask, flags, acc, ret, ghost>>

\* sigprocmask: the check of nxsig_procmask's result, and the return
Check(t) ==
  /\ Running(t) /\ pc[t] = "returned"
  /\ errno' = [errno EXCEPT ![t] = SpErrno(sret[t], @)]
  /\ sret' = [sret EXCEPT ![t] = SpRet(@)]
  /\ pc' = [pc EXCEPT ![t] = "done"]
  /\ UNCHANGED <<rtcb, irqen, sigprocmask, sigpendingset, lockcount, args, oset,
                 oldsigprocmask, flags, acc, ret, ghost>>

\* the record of a finished call
LastOf(t) ==
  [task |-> t, how |-> how[t], setp |-> setp[t], set |-> set[t], osetp |-> osetp[t],
   old |-> entry[t].mask, oset |-> oset[t]]

\* the caller goes on: the frames of the call are gone; keep tells whether
\* the run remembers the call
Finish(t, keep) ==
  /\ Running(t) /\ pc[t] = "done"
  /\ last' = IF keep THEN LastOf(t) ELSE NoLast
  /\ pc' = [pc EXCEPT ![t] = "idle"]
  /\ how' = [how EXCEPT ![t] = 0]
  /\ setp' = [setp EXCEPT ![t] = FALSE]
  /\ set' = [set EXCEPT ![t] = {}]
  /\ osetp' = [osetp EXCEPT ![t] = FALSE]
  /\ oset' = [oset EXCEPT ![t] = <<>>]
  /\ oldsigprocmask' = [oldsigprocmask EXCEPT ![t] = {}]
  /\ flags' = [flags EXCEPT ![t] = TRUE]
  /\ acc' = [acc EXCEPT ![t] = {}]
  /\ ret' = [ret EXCEPT ![t] = OK]
  /\ sret' = [sret EXCEPT ![t] = OK]
  /\ entry' = [entry EXCEPT ![t] = NoEntry]
  /\ ndispatch' = [ndispatch EXCEPT ![t] = 0]
  /\ delivered' = [delivered EXCEPT ![t] = {}]
  /\ ncs' = [ncs EXCEPT ![t] = 0]
  /\ UNCHANGED <<rtcb, irqen, tcb, ncalls>>

\* the steps of a call between its entry and the caller going on
Step(t) ==
  \/ Capture(t) \/ EnterCritical(t) \/ Switch(t) \/ Store(t) \/ LeaveCritical(t)
  \/ Dispatch(t) \/ Deliver(t) \/ DispatchDone(t) \/ Unlock(t) \/ Check(t)

Next ==
  \/ \E t \in Tasks, h \in HowValues, s \in SigSets, op \in BOOLEAN :
        Call(t, h, TRUE, s, op, MaxCalls)
  \/ \E t \in Tasks, h \in HowValues, op \in BOOLEAN : Call(t, h, FALSE, {}, op, MaxCalls)
  \/ \E t \in Tasks : Capture(t)
  \/ \E t \in Tasks : EnterCritical(t)
  \/ \E t \in Tasks : Switch(t)
  \/ \E t \in Tasks : Store(t)
  \/ \E t \in Tasks : LeaveCritical(t)
  \/ \E t \in Tasks : Dispatch(t)
  \/ \E t \in Tasks : Deliver(t)
  \/ \E t \in Tasks : DispatchDone(t)
  \/ \E t \in Tasks : Unlock(t)
  \/ \E t \in Tasks : Check(t)
  \/ \E t \in Tasks : Finish(t, FALSE)
  \/ \E t \in Tasks : CallerLock(t)
  \/ \E t \in Tasks : CallerUnlock(t)
  \/ \E t \in Tasks, b \in BOOLEAN : CallerIrq(t, b)
  \/ \E u \in Tasks : Preempt(u)
  \/ \E t \in Tasks, n \in Signals : Interrupt(t, n)

\* every task, every mask, one call
Spec == Init /\ [][Next]_vars

\* the running task makes calls in succession; the other tasks are newly
\* created and never scheduled
InitSeq ==
  /\ Init
  /\ \A t \in Tasks \ {rtcb} : sigprocmask[t] = {}

NextSeq ==
  \/ \E t \in Tasks, h \in HowValues, s \in SigSets, op \in BOOLEAN :
        Call(t, h, TRUE, s, op, SeqCalls)
  \/ \E t \in Tasks, h \in HowValues, op \in BOOLEAN : Call(t, h, FALSE, {}, op, SeqCalls)
  \/ \E t \in Tasks : Capture(t)
  \/ \E t \in Tasks : EnterCritical(t)
  \/ \E t \in Tasks : Switch(t)
  \/ \E t \in Tasks : Store(t)
  \/ \E t \in Tasks : LeaveCritical(t)
  \/ \E t \in Tasks : Dispatch(t)
  \/ \E t \in Tasks : Deliver(t)
  \/ \E t \in Tasks : DispatchDone(t)
  \/ \E t \in Tasks : Unlock(t)
  \/ \E t \in Tasks : Check(t)
  \/ \E t \in Tasks : Finish(t, TRUE)
  \/ \E t \in Tasks, n \in Signals : Interrupt(t, n)

SpecSeq == InitSeq /\ [][NextSeq]_vars

\* the running task, outside a call, blocks of its own accord (it waits for
\* something) and the scheduler runs task u, whatever the lock count of t
BlockSelf(t, u) ==
  /\ Running(t) /\ pc[t] = "idle" /\ irqen /\ u # t
  /\ rtcb' = u
  /\ UNCHANGED <<irqen, tcb, pc, args, locals, ghost>>

NextMT ==
  \/ Next
  \/ \E t \in Tasks, u \in Tasks : BlockSelf(t, u)

\* as Spec, and tasks may block while they hold their scheduler lock
SpecMT == Init /\ [][NextMT]_vars

\* one call, the other tasks newly created; a task between its sched_lock
\* and the return of its call is given the CPU until it has taken its step
SpecLive == InitSeq /\ [][Next]_vars /\ \A t \in Tasks : WF_vars(Step(t))

(* ---- the claims ---- *)

\* nxsig_procmask has returned to sigprocmask in task t
Returned(t) == pc[t] \in {"returned", "done"}

\* some interrupt made a signal pending on t during its call
RaisedInCall(t) == sigpendingset[t] \ entry[t].pending # {}

\* C1: a call with a set and a valid how returns OK and leaves the mask
\* M \cup S (SIG_BLOCK), M \ S (SIG_UNBLOCK) or S (SIG_SETMASK), M being the
\* mask at entry, whatever was pending and whatever interrupts raised.
C1_MaskLaws ==
  \A t \in Tasks :
    (Returned(t) /\ setp[t] /\ how[t] \in ValidHows) =>
      /\ ret[t] = OK
      /\ how[t] = SIG_BLOCK => sigprocmask[t] = entry[t].mask \cup set[t]
      /\ how[t] = SIG_UNBLOCK => sigprocmask[t] = entry[t].mask \ set[t]
      /\ how[t] = SIG_SETMASK => sigprocmask[t] = set[t]

C1_Witness ==
  \E t \in Tasks :
    /\ pc[t] = "returned" /\ setp[t] /\ how[t] = SIG_UNBLOCK
    /\ set[t] \cap entry[t].mask # {} /\ entry[t].mask \ set[t] # {}
    /\ sigprocmask[t] = entry[t].mask \ set[t]
    /\ RaisedInCall(t)

\* C2: when a call with a set returns, every signal that was pending at entry
\* and is outside the resulting mask has been delivered by the dispatcher, and
\* no signal of the task is pending and outside its mask.
C2_DeliveredBeforeReturn ==
  \A t \in Tasks :
    (Returned(t) /\ setp[t]) =>
      /\ (entry[t].pending \ sigprocmask[t]) \subseteq delivered[t]
      /\ sigpendingset[t] \ sigprocmask[t] = {}

C2_Witness ==
  \E t \in Tasks :
    /\ pc[t] = "returned" /\ setp[t] /\ how[t] = SIG_UNBLOCK
    /\ entry[t].pending \cap set[t] # {}
    /\ delivered[t] = entry[t].pending \cap set[t]
    /\ sigpendingset[t] \cap set[t] = {}

\* C3: a call with a set and an invalid how returns -EINVAL and leaves the
\* mask as it was at entry.
C3_InvalidHow ==
  \A t \in Tasks :
    (Returned(t) /\ setp[t] /\ how[t] \notin ValidHows) =>
      /\ ret[t] = -EINVAL
      /\ sigprocmask[t] = entry[t].mask

C3_Witness ==
  \E t \in Tasks :
    /\ pc[t] = "returned" /\ setp[t] /\ how[t] \in InvalidHows
    /\ set[t] # entry[t].mask /\ set[t] # {} /\ entry[t].mask # {}
    /\ ret[t] = -EINVAL

\* C4: once the capture has run, *oset holds the mask of the task as it was
\* at entry, for every how, with or without a set, whatever the result.
C4_OldMask ==
  \A t \in Tasks :
    (osetp[t] /\ pc[t] \notin {"idle", "capture"}) => oset[t] = <<entry[t].mask>>

C4_Witness ==
  \E t \in Tasks :
    /\ pc[t] = "returned" /\ osetp[t] /\ setp[t]
    /\ sigprocmask[t] # entry[t].mask
    /\ oset[t] = <<entry[t].mask>>
    /\ RaisedInCall(t)
    /\ \E u \in Tasks : pc[u] = "idle"

\* C5: a call delivers no signal of its resulting mask: what was pending at
\* entry and is in the mask at return is still pending; SIG_BLOCK of an
\* already blocked, pending signal leaves it pending and undelivered.
C5_BlockedStayPending ==
  \A t \in Tasks :
    /\ delivered[t] \cap sigprocmask[t] = {}
    /\ Returned(t) => (entry[t].pending \cap sigprocmask[t]) \subseteq sigpendingset[t]
    /\ (Returned(t) /\ setp[t] /\ how[t] = SIG_BLOCK) =>
         \A n \in set[t] \cap entry[t].pending :
           n \in sigpendingset[t] /\ n \notin delivered[t]

C5_Witness ==
  \E t \in Tasks : \E n \in Signals :
    /\ pc[t] = "returned" /\ setp[t] /\ how[t] = SIG_BLOCK
    /\ n \in set[t] /\ n \in entry[t].mask /\ n \in entry[t].pending
    /\ n \in sigpendingset[t] /\ delivered[t] = {}

\* C6: a call without a set returns OK for every how, leaves the mask as it
\* was, removes nothing from the pending set (and with interrupts disabled
\* leaves it as it was), never enters the critical section, never calls the
\* dispatcher, and runs on with interrupts as they were at entry.
C6_PureQuery ==
  \A t \in Tasks :
    (Returned(t) /\ ~setp[t]) =>
      /\ ret[t] = OK
      /\ sigprocmask[t] = entry[t].mask
      /\ entry[t].pending \subseteq sigpendingset[t]
      /\ ~entry[t].irqen => sigpendingset[t] = entry[t].pending
      /\ ncs[t] = 0 /\ ndispatch[t] = 0 /\ delivered[t] = {}
      /\ Running(t) => irqen = entry[t].irqen

C6_Witness ==
  \E t \in Tasks :
    /\ pc[t] = "returned" /\ ~setp[t] /\ how[t] \in InvalidHows /\ osetp[t]
    /\ entry[t].pending # {} /\ ~entry[t].irqen
    /\ ret[t] = OK

\* C7 as stated: for every invalid how, with or without a set, nxsig_procmask
\* returns -EINVAL and sigprocmask returns ERROR with errno EINVAL.
C7_Original ==
  \A t \in Tasks :
    (Returned(t) /\ how[t] \notin ValidHows) =>
      /\ ret[t] = -EINVAL
      /\ pc[t] = "done" => (sret[t] = ERROR /\ errno[t] = EINVAL)

\* C7 as amended: for every invalid how and every call WITH a set,
\* nxsig_procmask returns -EINVAL and sigprocmask returns ERROR with errno
\* EINVAL; without a set the call returns OK (0) and errno stays as it was.
C7_InvalidHowError ==
  \A t \in Tasks :
    (Returned(t) /\ how[t] \notin ValidHows) =>
      /\ setp[t] => ret[t] = -EINVAL
      /\ (setp[t] /\ pc[t] = "done") => (sret[t] = ERROR /\ errno[t] = EINVAL)
      /\ ~setp[t] => ret[t] = OK
      /\ (~setp[t] /\ pc[t] = "done") => (sret[t] = OK /\ errno[t] = entry[t].errno)

C7_Witness ==
  \E t \in Tasks :
    /\ pc[t] = "done" /\ how[t] \in InvalidHows /\ setp[t]
    /\ ret[t] = -EINVAL /\ sret[t] = ERROR /\ errno[t] = EINVAL
    /\ entry[t].errno # EINVAL

\* C8: sigprocmask adds to nxsig_procmask only the conversion of the result:
\* its last step leaves every mask, pending set and *oset as nxsig_procmask
\* left them; it returns 0 exactly when nxsig_procmask returned OK, with errno
\* as at entry, and otherwise ERROR with errno EINVAL for every invalid how.
C8_Result(t) ==
  pc[t] = "done" =>
    /\ sret[t] = 0 <=> ret[t] = OK
    /\ ret[t] = OK => errno[t] = entry[t].errno
    /\ ret[t] # OK => (sret[t] = ERROR /\ errno[t] = EINVAL)

C8_Frame(t) ==
  (pc[t] = "returned" /\ pc'[t] = "done") =>
    UNCHANGED <<sigprocmask, sigpendingset, lockcount, oset, irqen, ret>>

C8_Wrapper ==
  /\ [](\A t \in Tasks : C8_Result(t))
  /\ [][\A t \in Tasks : C8_Frame(t)]_vars

C8_Witness ==
  \E t \in Tasks :
    /\ pc[t] = "done" /\ how[t] = SIG_SETMASK + 96 /\ setp[t] /\ osetp[t]
    /\ sret[t] = ERROR /\ errno[t] = EINVAL /\ errno[t] # entry[t].errno
    /\ oset[t] = <<entry[t].mask>>

\* C9: a call with a set calls the dispatcher exactly once, also when how is
\* invalid and the call returns -EINVAL.
C9_DispatchOnce ==
  \A t \in Tasks :
    /\ ndispatch[t] <= 1
    /\ (Returned(t) /\ setp[t]) => ndispatch[t] = 1

C9_Witness ==
  \E t \in Tasks :
    /\ pc[t] = "returned" /\ setp[t] /\ how[t] \in InvalidHows
    /\ ret[t] = -EINVAL /\ ndispatch[t] = 1
    /\ sigprocmask[t] = entry[t].mask

\* C10: after nxsig_procmask(SIG_SETMASK, S, ...) the mask is S, and a second
\* nxsig_procmask(SIG_SETMASK, S, oset) right after it leaves the mask S and
\* writes S to *oset.
C10_SetMaskTwice ==
  \A t \in Tasks :
    (last.task = t /\ last.setp /\ last.how = SIG_SETMASK) =>
      /\ pc[t] = "idle" => sigprocmask[t] = last.set
      /\ (Returned(t) /\ setp[t] /\ how[t] = SIG_SETMASK /\ set[t] = last.set) =>
           /\ sigprocmask[t] = last.set
           /\ osetp[t] => oset[t] = <<last.set>>

C10_Witness ==
  \E t \in Tasks :
    /\ last.task = t /\ last.setp /\ last.how = SIG_SETMASK /\ last.old # last.set
    /\ pc[t] = "returned" /\ setp[t] /\ how[t] = SIG_SETMASK /\ set[t] = last.set
    /\ osetp[t] /\ oset[t] = <<last.set>> /\ sigprocmask[t] = last.set
    /\ last.set # {}

\* C11: nxsig_procmask(SIG_BLOCK, S) with S disjoint from the mask M, followed
\* by nxsig_procmask(SIG_UNBLOCK, S) with no write of the mask in between,
\* leaves the mask M.
C11_BlockUnblock ==
  \A t \in Tasks :
    (last.task = t /\ last.setp /\ last.how = SIG_BLOCK /\ last.set \cap last.old = {}) =>
      /\ pc[t] = "idle" => sigprocmask[t] = last.old \cup last.set
      /\ (Returned(t) /\ setp[t] /\ how[t] = SIG_UNBLOCK /\ set[t] = last.set) =>
           sigprocmask[t] = last.old

C11_Witness ==
  \E t \in Tasks :
    /\ last.task = t /\ last.setp /\ last.how = SIG_BLOCK /\ last.set \cap last.old = {}
    /\ last.set # {} /\ last.old # {}
    /\ pc[t] = "returned" /\ setp[t] /\ how[t] = SIG_UNBLOCK /\ set[t] = last.set
    /\ sigprocmask[t] = last.old

\* C19: nxsig_procmask(how, S, &old) with a valid how, followed by
\* nxsig_procmask(SIG_SETMASK, &old, NULL), leaves the mask as it was before
\* the first call, and what is pending at the return lies in that mask.
C19_SaveRestore ==
  \A t \in Tasks :
    (/\ last.task = t /\ last.setp /\ last.how \in ValidHows /\ last.osetp
     /\ Returned(t) /\ setp[t] /\ how[t] = SIG_SETMASK /\ ~osetp[t]
     /\ last.oset = <<set[t]>>) =>
      /\ sigprocmask[t] = last.old
      /\ sigpendingset[t] \subseteq last.old
      /\ (entry[t].pending \ last.old) \subseteq delivered[t]

C19_Witness ==
  \E t \in Tasks :
    /\ last.task = t /\ last.setp /\ last.how = SIG_BLOCK /\ last.osetp
    /\ last.set \ last.old # {} /\ last.old # {}
    /\ pc[t] = "returned" /\ setp[t] /\ how[t] = SIG_SETMASK /\ ~osetp[t]
    /\ last.oset = <<set[t]>>
    /\ sigprocmask[t] = last.old
    /\ delivered[t] # {} /\ sigpendingset[t] # {}

\* task t is between the sched_lock and the sched_unlock of its call
InCall(t) ==
  pc[t] \in {"capture", "enter", "switch", "store", "leave", "dispatch", "deliver", "unlock"}

\* the order of the steps of a call with a set
StepOrder ==
  {<<"idle", "capture">>, <<"capture", "enter">>, <<"enter", "switch">>,
   <<"switch", "store">>, <<"switch", "leave">>, <<"store", "leave">>,
   <<"leave", "dispatch">>, <<"dispatch", "deliver">>, <<"deliver", "unlock">>,
   <<"unlock", "returned">>, <<"returned", "done">>, <<"done", "idle">>}

\* C12: in a call with a set the steps come in the order sched_lock, capture,
\* enter_critical_section, mutation or rejection, leave_critical_section,
\* dispatcher, sched_unlock, return: the capture runs with the lock held, the
\* mutation inside the critical section, the dispatcher with the critical
\* section left and the lock still held, and the lock is released after the
\* dispatcher has returned.
C12_Where(t) ==
  setp[t] =>
    /\ pc[t] = "capture" =>
         lockcount[t] = entry[t].lockcount + 1 /\ ncs[t] = 0 /\ oset[t] = <<>>
    /\ pc[t] = "enter" =>
         oldsigprocmask[t] = entry[t].mask /\ sigprocmask[t] = entry[t].mask /\ ncs[t] = 0
    /\ pc[t] \in {"switch", "store"} =>
         ncs[t] = 1 /\ ~irqen /\ sigprocmask[t] = entry[t].mask /\ ndispatch[t] = 0
    /\ pc[t] = "leave" => ncs[t] = 1 /\ ~irqen /\ ndispatch[t] = 0
    /\ pc[t] = "dispatch" =>
         irqen = entry[t].irqen /\ ndispatch[t] = 0 /\ delivered[t] = {}
    /\ pc[t] \in {"dispatch", "deliver"} =>
         irqen = entry[t].irqen /\ lockcount[t] = entry[t].lockcount + 1
    /\ pc[t] = "unlock" =>
         ndispatch[t] = 1 /\ Unmasked(t) = {} /\ lockcount[t] = entry[t].lockcount + 1
    /\ Returned(t) => ndispatch[t] = 1 /\ lockcount[t] = entry[t].lockcount

C12_Order(t) ==
  ((setp[t] \/ setp'[t]) /\ pc'[t] # pc[t]) => <<pc[t], pc'[t]>> \in StepOrder

C12_StepOrder ==
  /\ [](\A t \in Tasks : C12_Where(t))
  /\ [][\A t \in Tasks : C12_Order(t)]_vars

C12_Witness ==
  \E t \in Tasks :
    /\ pc[t] = "deliver" /\ setp[t] /\ how[t] = SIG_SETMASK
    /\ entry[t].irqen /\ irqen /\ lockcount[t] = 1 /\ ncs[t] = 1
    /\ Unmasked(t) # {} /\ delivered[t] # {}

\* C13: the mask is written only inside the critical section: from before the
\* read of the mask until after its write interrupts are disabled, so no
\* interrupt makes a signal pending between the read and the write.
C13_Masked(t) ==
  /\ pc[t] \in {"switch", "store", "leave"} => (~irqen /\ Running(t) /\ ncs[t] = 1)
  /\ pc[t] = "store" => acc[t] \in {{}, sigprocmask[t]}

C13_Write(t) ==
  sigprocmask'[t] # sigprocmask[t] =>
    (~irqen /\ ~irqen' /\ ncs[t] = 1 /\ Running(t) /\ pc[t] = "store")

C13_NoIrq(t) ==
  pc[t] \in {"switch", "store", "leave"} => sigpendingset' = sigpendingset

C13_AtomicWrite ==
  /\ [](\A t \in Tasks : C13_Masked(t))
  /\ [][\A t \in Tasks : C13_Write(t) /\ C13_NoIrq(t)]_vars

C13_Witness ==
  \E t \in Tasks :
    /\ pc[t] = "store" /\ how[t] = SIG_BLOCK /\ entry[t].irqen /\ ~irqen
    /\ acc[t] = sigprocmask[t] /\ acc[t] # {} /\ set[t] \ acc[t] # {}
    /\ sigpendingset[t] # {}

\* C14: on every path the scheduler-lock count of the task at the return is
\* its count k at entry, for every k >= 0; during the call it is k + 1, so it
\* never drops to 0 (nor below k).
C14_LockBalance ==
  \A t \in Tasks :
    /\ InCall(t) => lockcount[t] = entry[t].lockcount + 1
    /\ Returned(t) => lockcount[t] = entry[t].lockcount
    /\ lockcount[t] >= 0

C14_Witness ==
  \E t, u \in Tasks :
    /\ pc[t] = "returned" /\ ~setp[t] /\ entry[t].lockcount = MaxNest /\ MaxNest > 0
    /\ lockcount[t] = MaxNest
    /\ u # t

\* C15: a call enters the critical section at most once (once with a set,
\* never without), leaves it with the flags of that enter on every path, the
\* invalid how included, runs the dispatcher with the critical section left,
\* and returns with interrupts as they were at entry.
C15_CriticalSection ==
  \A t \in Tasks :
    /\ ncs[t] <= 1
    /\ pc[t] \in {"switch", "store", "leave"} =>
         (ncs[t] = 1 /\ flags[t] = entry[t].irqen /\ ~irqen)
    /\ pc[t] \in {"dispatch", "deliver", "unlock"} => irqen = entry[t].irqen
    /\ (Returned(t) /\ Running(t)) => irqen = entry[t].irqen
    /\ Returned(t) => ncs[t] = (IF setp[t] THEN 1 ELSE 0)

C15_Witness ==
  \E t \in Tasks :
    /\ pc[t] = "returned" /\ setp[t] /\ how[t] \in InvalidHows
    /\ ~entry[t].irqen /\ ~irqen /\ ncs[t] = 1 /\ ret[t] = -EINVAL

\* C16: between the sched_lock and the sched_unlock of a call by task t no
\* other task runs or changes (interrupts may make signals pending), so no
\* task other than t ever runs while t has a pending signal outside its mask.
C16_Alone(t) ==
  /\ InCall(t) => Running(t)
  /\ ~Running(t) => Unmasked(t) = {}

C16_NoOtherStep(t) ==
  InCall(t) =>
    /\ rtcb' = t
    /\ \A u \in Tasks \ {t} :
         /\ pc'[u] = pc[u] /\ lockcount'[u] = lockcount[u]
         /\ sigprocmask'[u] = sigprocmask[u] /\ errno'[u] = errno[u]

TaskStep(t) == pc'[t] # pc[t] \/ delivered'[t] # delivered[t]

\* C17: a call by task t touches only t's mask and t's scheduler-lock count:
\* every step of the call leaves the mask, the pending set, the lock count,
\* errno and the position of every other task as they were; a lock count
\* changes only by a step of its own task, one count at a time, also while
\* other tasks hold theirs.
C17_Frame(t) ==
  TaskStep(t) =>
    \A u \in Tasks \ {t} :
      /\ sigprocmask'[u] = sigprocmask[u] /\ sigpendingset'[u] = sigpendingset[u]
      /\ lockcount'[u] = lockcount[u] /\ errno'[u] = errno[u] /\ pc'[u] = pc[u]

C17_OwnCount(t) ==
  lockcount'[t] # lockcount[t] =>
    /\ Running(t)
    /\ \A u \in Tasks \ {t} : lockcount'[u] = lockcount[u]

C17_TaskLocal ==
  [][\A t \in Tasks : C17_Frame(t) /\ C17_OwnCount(t)]_vars

C17_Witness ==
  \E t, u \in Tasks :
    /\ u # t /\ pc[t] = "deliver" /\ delivered[t] # {}
    /\ entry[t].lockcount = 1 /\ lockcount[t] = 2
    /\ lockcount[u] = 1 /\ sigprocmask[u] # {} /\ sigpendingset[u] # {}

\* C18: a call never waits: between its sched_lock and its return the task
\* always has a step it can take, and given the CPU for its steps (and a
\* dispatcher that returns) every call returns, on every path, whatever
\* interrupts raise meanwhile.
C18_Returns ==
  /\ [](\A t \in Tasks : InCall(t) => ENABLED Step(t))
  /\ \A t \in Tasks : InCall(t) ~> (pc[t] = "returned")

C18_Witness ==
  \E t \in Tasks :
    /\ pc[t] = "returned" /\ setp[t] /\ delivered[t] # {} /\ RaisedInCall(t)
    /\ ndispatch[t] = 1
====
